---- MODULE Spec2Model ----
(***************************************************************************)
(* SoftBackend (src/src/soft_backend.rs): a software rendering backend     *)
(* that paints a grid of styled terminal cells into an RGB pixmap.         *)
(*                                                                         *)
(* The backend struct is one record, `backend`, with the fields of the     *)
(* Rust struct; every method is an operator from a backend record to a     *)
(* backend record, and every public operation is one action.               *)
(*                                                                         *)
(* Numbers. scale_factor is an f32 in the source; the model uses the       *)
(* integral factors 1 and 2, for which every product with a small integer  *)
(* is exact in f32, so `(x as f32 * scale) as usize` is x * scale.         *)
(* `(w as f32 * 0.9) as usize` is (w * 9) \div 10 and                      *)
(* `(h as f32 * 0.85) as usize` is (h * 85) \div 100 for the small w, h    *)
(* of the model: the f32 nearest to 0.9 is below 0.9 by a relative 2.7e-8, *)
(* less than half an ulp, so an exact integer product rounds back to that  *)
(* integer, and the f32 nearest to 0.85 is above 0.85.                     *)
(***************************************************************************)
EXTENDS Integers, Sequences, FiniteSets, TLC

VARIABLES backend, draws, lastOp

vars == <<backend, draws, lastOp>>

----------------------------------------------------------------------------
(* Bounds of the model *)

\* draw calls explored by Spec (the paint specification): through the
\* rapid-blink window (counter 1..5) into the slow-blink window (from 20)
MaxDraws == 21

\* draw calls explored by SpecScale (both scale factors)
MaxScaleDraws == 2

\* draw calls explored by SpecCycle (the blink-clock specification)
MaxTicks == 203

\* draw calls explored by SpecWindow (the reported-size specification)
MaxWindowDraws == 2

\* draw calls explored by SpecStyle (the colour-resolution specification)
MaxStyleDraws == 2

----------------------------------------------------------------------------
(* Colours: crate::colors, a file of this repository that is not under     *)
(* src/; modelled from spec.md section 4.1.                                *)

Reset == [kind |-> "Reset", idx |-> 0, rgb |-> <<0, 0, 0>>]

Indexed(i) == [kind |-> "Indexed", idx |-> i, rgb |-> <<0, 0, 0>>]

Rgb(r, g, b) == [kind |-> "Rgb", idx |-> 0, rgb |-> <<r, g, b>>]

DefaultFg == <<255, 255, 255>>

DefaultBg == <<0, 0, 0>>

\* the 16 standard palette entries: channel 128 (entries 1..7) or 255
\* (entries 9..15) on the bits of the index; higher indexes are grey here
IndexedPalette(i) ==
    IF i < 16
    THEN LET v == IF i < 8 THEN 128 ELSE 255
         IN  << v * (i % 2), v * ((i \div 2) % 2), v * ((i \div 4) % 2) >>
    ELSE << i, i, i >>

\* rat_to_rgb(color, is_a_fg): "default" is resolved by the role flag
rat_to_rgb(color, is_a_fg) ==
    CASE color.kind = "Reset"   -> (IF is_a_fg THEN DefaultFg ELSE DefaultBg)
      [] color.kind = "Indexed" -> IndexedPalette(color.idx)
      [] color.kind = "Rgb"     -> color.rgb

\* dim_rgb: every channel attenuated by a fixed factor below one, truncated
dim_rgb(c) == << (c[1] * 7) \div 10, (c[2] * 7) \div 10, (c[3] * 7) \div 10 >>

\* blend_rgba(fg with alpha, bg): out = fg * a + bg * (1 - a), a = alpha/255
blend_rgba(fg, alpha, bg) ==
    << (fg[1] * alpha + bg[1] * (255 - alpha)) \div 255,
       (fg[2] * alpha + bg[2] * (255 - alpha)) \div 255,
       (fg[3] * alpha + bg[3] * (255 - alpha)) \div 255 >>

----------------------------------------------------------------------------
(* RgbPixmap: crate::pixmap, not under src/; modelled from spec.md         *)
(* section 2 (a flat width x height array, point writes, fill, realloc).   *)

\* RgbPixmap::new(width, height): zeroed
PixmapNew(width, height) ==
    [width |-> width, height |-> height,
     data |-> [i \in 1..(width * height) |-> <<0, 0, 0>>]]

\* RgbPixmap::fill(color)
PixmapFill(pm, color) ==
    [pm EXCEPT !.data = [i \in 1..(pm.width * pm.height) |-> color]]

\* RgbPixmap::put_pixel(x, y, color); every caller checks x, y first
PutPixel(pm, x, y, color) ==
    [pm EXCEPT !.data[y * pm.width + x + 1] = color]

----------------------------------------------------------------------------
(* The text collaborators (cosmic_text shaping, swash rasterizer): what    *)
(* the backend reads from them.  A glyph is a sequence of bitmap pixels    *)
(* <<real_x, real_y, alpha>> relative to the cell origin, rasterized at    *)
(* the size the cache key carries.                                         *)

\* placement of the reference glyph (full block) rasterized at `size` px
BlockPlacement(size) == [width |-> size, height |-> size]

\* the bitmap pixels of a cell symbol rasterized at `size` px:
\*   " "  shapes to no glyph;
\*   "i"  one half-covered pixel at the cell origin;
\*   "W"  a full-em row, x from -1 (left overhang) to size - 1: wider than
\*        the cell whenever the cell is narrower than the font size.
GlyphPixels(symbol, size) ==
    CASE symbol = " " -> << >>
      [] symbol = "i" -> IF size > 0 THEN << <<0, 0, 128>> >> ELSE << >>
      [] symbol = "W" -> [k \in 1..(IF size > 0 THEN size + 1 ELSE 0) |-> <<k - 2, 0, 255>>]

----------------------------------------------------------------------------
(* ratatui's Cell and Buffer, as the backend uses them *)

Modifiers == {"DIM", "REVERSED", "HIDDEN", "SLOW_BLINK", "RAPID_BLINK"}

MkCell(symbol, fg, bg, modifier) ==
    [symbol |-> symbol, fg |-> fg, bg |-> bg, modifier |-> modifier]

\* Cell::EMPTY
EmptyCell == MkCell(" ", Reset, Reset, {})

\* Buffer::empty(Rect::new(0, 0, width, height))
BufferEmpty(width, height) ==
    [area |-> [width |-> width, height |-> height],
     content |-> [i \in 1..(width * height) |-> EmptyCell]]

\* Buffer::resize(area): the flat content is truncated or padded with empty
\* cells, and then read under the new width
BufferResize(buf, width, height) ==
    [area |-> [width |-> width, height |-> height],
     content |-> [i \in 1..(width * height) |->
                     IF i <= Len(buf.content) THEN buf.content[i] ELSE EmptyCell]]

\* Buffer::reset()
BufferReset(buf) ==
    [buf EXCEPT !.content = [i \in 1..Len(buf.content) |-> EmptyCell]]

\* whether Buffer::cell(Position::new(x, y)) is Some
InArea(buf, x, y) == x < buf.area.width /\ y < buf.area.height

\* Buffer::cell(Position::new(x, y)).unwrap(), for a position in the area
BufferCell(buf, x, y) == buf.content[y * buf.area.width + x + 1]

\* buffer[(x, y)] = cell, for a position in the area
BufferSet(buf, x, y, cell) ==
    [buf EXCEPT !.content[y * buf.area.width + x + 1] = cell]

----------------------------------------------------------------------------
(* SoftBackend's private methods.  `s` is the struct; the result is the    *)
(* struct after the call.  s.panicked records an unwind (a failed unwrap   *)
(* or index): once set, the rest of the operation does not run.            *)
(* s.paint_log is an observation of the calls, not a field of the struct:  *)
(* it lists, in order, the grid writes <<"set", x, y, cell>> and the paint   *)
(* phases <<"bg", x, y>>, <<"fg", x, y>> of the current operation, and the   *)
(* coordinate <<"panic", x, y>> a buffer index panicked on.                 *)

\* (self.char_width as f32 * self.scale_factor) as usize
PhysicalSize(logical, scale_factor) == logical * scale_factor

\* the colour draw_cell_background fills the cell with
BackgroundColor(rat_cell) ==
    LET bg_color == IF "REVERSED" \in rat_cell.modifier
                    THEN rat_to_rgb(rat_cell.fg, TRUE)
                    ELSE rat_to_rgb(rat_cell.bg, FALSE)
    IN  IF "DIM" \in rat_cell.modifier THEN dim_rgb(bg_color) ELSE bg_color

\* the pixels of the cell rectangle that lie in the pixmap, filled
FillRect(pm, begin_x, begin_y, w, h, color) ==
    [pm EXCEPT !.data =
        [i \in 1..(pm.width * pm.height) |->
            LET px == (i - 1) % pm.width
                py == (i - 1) \div pm.width
            IN  IF /\ px >= begin_x /\ px < begin_x + w
                   /\ py >= begin_y /\ py < begin_y + h
                THEN color
                ELSE pm.data[i]]]

draw_cell_background(s, xik, yik) ==
    LET physical_char_width == PhysicalSize(s.char_width, s.scale_factor)
        physical_char_height == PhysicalSize(s.char_height, s.scale_factor)
        begin_x == xik * physical_char_width
        begin_y == yik * physical_char_height
        s0 == [s EXCEPT !.paint_log = Append(@, <<"bg", xik, yik>>)]
    IN  IF begin_x >= s.rgb_pixmap.width \/ begin_y >= s.rgb_pixmap.height
        THEN s0
        ELSE IF ~InArea(s.buffer, xik, yik)
        THEN [s0 EXCEPT !.panicked = TRUE]
        ELSE [s0 EXCEPT !.rgb_pixmap =
                 FillRect(@, begin_x, begin_y, physical_char_width,
                          physical_char_height,
                          BackgroundColor(BufferCell(s.buffer, xik, yik)))]

\* the (fg_color, bg_color) draw_cell_text composites with
TextColors(rat_cell, blinking_fast, blinking_slow) ==
    LET rat_bg == rat_cell.bg
        rat_fg == IF "HIDDEN" \in rat_cell.modifier THEN rat_bg ELSE rat_cell.fg
        rev == "REVERSED" \in rat_cell.modifier
        fg0 == IF rev THEN rat_to_rgb(rat_bg, FALSE) ELSE rat_to_rgb(rat_fg, TRUE)
        bg_color == IF rev THEN rat_to_rgb(rat_fg, TRUE) ELSE rat_to_rgb(rat_bg, FALSE)
        fg1 == IF "DIM" \in rat_cell.modifier THEN dim_rgb(fg0) ELSE fg0
        fg2 == IF "SLOW_BLINK" \in rat_cell.modifier /\ blinking_slow
               THEN bg_color ELSE fg1
        fg3 == IF "RAPID_BLINK" \in rat_cell.modifier /\ blinking_fast
               THEN bg_color ELSE fg2
    IN  [fg_color |-> fg3, bg_color |-> bg_color]

\* variant of BlinkInsert that forgets the slow-blink cells
BlinkInsertRapidOnly(list, rat_cell, xik, yik) ==
    IF "RAPID_BLINK" \in rat_cell.modifier THEN list \cup {<<xik, yik>>} ELSE list

\* the cell is entered in always_redraw_list when it blinks
BlinkInsert(list, rat_cell, xik, yik) ==
    IF rat_cell.modifier \cap {"SLOW_BLINK", "RAPID_BLINK"} # {}
    THEN list \cup {<<xik, yik>>}
    ELSE list

\* the loop over the bitmap pixels of the shaped glyphs
RECURSIVE CompositeGlyph(_, _, _, _, _, _)
CompositeGlyph(pm, glyph, n, begin_x, begin_y, colors) ==
    IF n > Len(glyph) THEN pm
    ELSE LET real_x == glyph[n][1]
             real_y == glyph[n][2]
             get_x == begin_x + real_x
             get_y == begin_y + real_y
             put == /\ real_x >= 0 /\ real_y >= 0
                    /\ get_x < pm.width /\ get_y < pm.height
             pm1 == IF put
                    THEN PutPixel(pm, get_x, get_y,
                                  blend_rgba(colors.fg_color, glyph[n][3], colors.bg_color))
                    ELSE pm
         IN  CompositeGlyph(pm1, glyph, n + 1, begin_x, begin_y, colors)

draw_cell_text(s, xik, yik) ==
    LET begin_x == xik * PhysicalSize(s.char_width, s.scale_factor)
        begin_y == yik * PhysicalSize(s.char_height, s.scale_factor)
        s0 == [s EXCEPT !.paint_log = Append(@, <<"fg", xik, yik>>)]
    IN  IF ~InArea(s.buffer, xik, yik)
        THEN [s0 EXCEPT !.panicked = TRUE]
        ELSE LET rat_cell == BufferCell(s.buffer, xik, yik)
                 colors == TextColors(rat_cell, s.blinking_fast, s.blinking_slow)
                 \* glyph.physical((0., 0.), scale_factor): the bitmap is
                 \* rasterized at metrics.font_size * scale_factor
                 glyph == GlyphPixels(rat_cell.symbol, s.metrics * s.scale_factor)
             IN  [s0 EXCEPT
                    !.always_redraw_list = BlinkInsert(@, rat_cell, xik, yik),
                    !.rgb_pixmap = CompositeGlyph(@, glyph, 1, begin_x, begin_y, colors)]

\* one pass of draw_cell_background over a list of coordinates
RECURSIVE BackgroundPass(_, _, _)
BackgroundPass(s, cells, n) ==
    IF n > Len(cells) \/ s.panicked THEN s
    ELSE BackgroundPass(draw_cell_background(s, cells[n][1], cells[n][2]), cells, n + 1)

\* one pass of draw_cell_text over a list of coordinates
RECURSIVE TextPass(_, _, _)
TextPass(s, cells, n) ==
    IF n > Len(cells) \/ s.panicked THEN s
    ELSE TextPass(draw_cell_text(s, cells[n][1], cells[n][2]), cells, n + 1)

\* variant of PaintCells that paints cell by cell, background then text
RECURSIVE PaintCellsInterleaved(_, _)
PaintCellsInterleaved(s, cells) ==
    IF cells = << >> \/ s.panicked THEN s
    ELSE PaintCellsInterleaved(
             draw_cell_text(draw_cell_background(s, cells[1][1], cells[1][2]),
                            cells[1][1], cells[1][2]),
             Tail(cells))

\* both passes: all backgrounds, then all text
PaintCells(s, cells) == TextPass(BackgroundPass(s, cells, 1), cells, 1)

\* for x in 0..width { for y in 0..height { ... } }
GridOrder(width, height) ==
    [k \in 1..(width * height) |-> <<(k - 1) \div height, (k - 1) % height>>]

\* variant of update_blinking whose counter wraps at 100
update_blinking_period_100(s) ==
    LET c == (s.blink_counter + 1) % 100
    IN  [s EXCEPT !.blink_counter = c,
                  !.blinking_fast = (c % 100) \in 0..5,
                  !.blinking_slow = c \in 20..25]

update_blinking(s) ==
    LET c == (s.blink_counter + 1) % 200
    IN  [s EXCEPT !.blink_counter = c,
                  !.blinking_fast = (c % 100) \in 0..5,
                  !.blinking_slow = c \in 20..25]

\* variant of redraw that advances the blink clock as draw does
redraw_ticking(s) ==
    PaintCells([update_blinking(s) EXCEPT !.always_redraw_list = {}],
               GridOrder(s.buffer.area.width, s.buffer.area.height))

redraw(s) ==
    PaintCells([s EXCEPT !.always_redraw_list = {}],
               GridOrder(s.buffer.area.width, s.buffer.area.height))

\* the cell size measured from the reference glyph: (char_width, char_height)
MeasureCell(font_size, scale_factor) ==
    LET scaled_font_size == font_size * scale_factor
        \* physical((0., 0.), scale_factor) puts scaled_font_size * scale_factor
        \* in the cache key the bitmap is rasterized from
        wa == BlockPlacement(scaled_font_size * scale_factor)
    IN  [char_width |-> (wa.width * 9) \div 10,
         char_height |-> (wa.height * 85) \div 100,
         metrics |-> scaled_font_size]

set_font_size(s, font_size) ==
    LET m == MeasureCell(font_size, s.scale_factor)
        physical_width == PhysicalSize(m.char_width, s.scale_factor)
        physical_height == PhysicalSize(m.char_height, s.scale_factor)
    IN  redraw([s EXCEPT
                  !.metrics = m.metrics,
                  !.char_width = m.char_width,
                  !.char_height = m.char_height,
                  !.rgb_pixmap = PixmapNew(physical_width * s.buffer.area.width,
                                           physical_height * s.buffer.area.height)])

\* variant of resize that allocates the pixmap from the logical cell size
resize_unscaled(s, width, height) ==
    redraw([s EXCEPT
              !.buffer = BufferResize(@, width, height),
              !.rgb_pixmap = PixmapNew(s.char_width * width, s.char_height * height)])

resize(s, width, height) ==
    LET physical_width == PhysicalSize(s.char_width, s.scale_factor)
        physical_height == PhysicalSize(s.char_height, s.scale_factor)
    IN  redraw([s EXCEPT
                  !.buffer = BufferResize(@, width, height),
                  !.rgb_pixmap = PixmapNew(physical_width * width,
                                           physical_height * height)])

clear(s) ==
    [s EXCEPT !.buffer = BufferReset(@),
              !.rgb_pixmap = PixmapFill(@, rat_to_rgb(EmptyCell.bg, FALSE))]

new_with_font_and_scale(width, height, font_size, scale_factor) ==
    LET m == MeasureCell(font_size, scale_factor)
        physical_width == PhysicalSize(m.char_width, scale_factor)
        physical_height == PhysicalSize(m.char_height, scale_factor)
    IN  clear([buffer |-> BufferEmpty(width, height),
               cursor |-> FALSE,
               pos |-> <<0, 0>>,
               rgb_pixmap |-> PixmapNew(physical_width * width, physical_height * height),
               metrics |-> m.metrics,
               char_width |-> m.char_width,
               char_height |-> m.char_height,
               scale_factor |-> scale_factor,
               blink_counter |-> 0,
               blinking_fast |-> FALSE,
               blinking_slow |-> FALSE,
               always_redraw_list |-> {},
               panicked |-> FALSE,
               paint_log |-> << >>])

new_with_font(width, height, font_size) ==
    new_with_font_and_scale(width, height, font_size, 1)

\* the loop `self.buffer[(x, y)] = c.clone()` over the content; the index
\* panics on a position outside the area
RECURSIVE WriteCells(_, _, _)
WriteCells(s, content, n) ==
    IF n > Len(content) \/ s.panicked THEN s
    ELSE LET x == content[n][1]
             y == content[n][2]
         IN  IF InArea(s.buffer, x, y)
             THEN WriteCells([s EXCEPT !.buffer = BufferSet(@, x, y, content[n][3]),
                                       !.paint_log = Append(@, <<"set", x, y, content[n][3]>>)],
                             content, n + 1)
             ELSE [s EXCEPT !.panicked = TRUE,
                            !.paint_log = Append(@, <<"panic", x, y>>)]

\* the coordinates of the content, in order
ContentCoords(content) == [k \in 1..Len(content) |-> <<content[k][1], content[k][2]>>]

\* variant of draw that repaints the changed cells only
draw_changed_only(s, content, blinking) ==
    LET s1 == WriteCells(update_blinking(s), content, 1)
    IN  IF s1.panicked THEN s1 ELSE PaintCells(s1, ContentCoords(content))

\* draw(content); `blinking` is always_redraw_list in the order the HashSet
\* iterator yields it, which the source does not fix
draw(s, content, blinking) ==
    LET s1 == WriteCells(update_blinking(s), content, 1)
        cells_to_update == ContentCoords(content) \o blinking
    IN  IF s1.panicked THEN s1 ELSE PaintCells(s1, cells_to_update)

----------------------------------------------------------------------------
(* Inputs *)

\* grid sizes (columns, rows) given to the constructors and to resize
GridSizes == {<<2, 1>>, <<1, 2>>, <<1, 1>>, <<0, 1>>}

\* logical font sizes; at scale 1.0 size 1 measures a cell of 0 x 0 pixels
\* and size 2 a cell of 1 x 1
FontSizes == {1, 2}

\* scale factors: 1.0 (new_with_font) and 2.0
Scales == {1, 2}

\* the coordinates a draw may name; at least one is outside every grid
Positions == {<<0, 0>>, <<1, 0>>, <<0, 1>>}

Red == Rgb(200, 0, 0)

Blue == Rgb(0, 0, 100)

WideCell == MkCell("W", Reset, Reset, {})

RapidDimCell == MkCell("i", Red, Blue, {"RAPID_BLINK", "DIM"})

SlowWideCell == MkCell("W", Indexed(3), Blue, {"SLOW_BLINK"})

Cells == {EmptyCell, WideCell, RapidDimCell, SlowWideCell}

Items(cells) == {<<p[1], p[2], c>> : p \in Positions, c \in cells}

\* what a draw is given: no cell or one cell
Singles(cells) == {<< >>} \cup {<<i>> : i \in Items(cells)}

\* two cells at two coordinates
Pairs(first, second) ==
    {<<i, j>> \in Items(first) \X Items(second) : <<i[1], i[2]>> # <<j[1], j[2]>>}

Contents == Singles(Cells) \cup Pairs({WideCell, RapidDimCell}, {EmptyCell, WideCell})

\* the orders a HashSet of coordinates can be iterated in
Orders(set) ==
    {f \in [1..Cardinality(set) -> set] : \A i, j \in DOMAIN f : f[i] = f[j] => i = j}

----------------------------------------------------------------------------
(* The public operations.  An operation on a backend that has panicked     *)
(* does not happen: the unwind ended the program.                          *)

Begin(s) == [s EXCEPT !.paint_log = << >>]

Construct(sizes, font_sizes, scales) ==
    \E size \in sizes, font_size \in font_sizes, scale_factor \in scales :
        /\ backend = new_with_font_and_scale(size[1], size[2], font_size, scale_factor)
        /\ draws = 0
        /\ lastOp = "new"

Draw(contents, cap) ==
    /\ ~backend.panicked
    /\ draws < cap
    /\ \E content \in contents, blinking \in Orders(backend.always_redraw_list) :
           backend' = draw(Begin(backend), content, blinking)
    /\ draws' = draws + 1
    /\ lastOp' = "draw"

Redraw ==
    /\ ~backend.panicked
    /\ backend' = redraw(Begin(backend))
    /\ lastOp' = IF lastOp \in {"redraw", "redraw_again"} THEN "redraw_again" ELSE "redraw"
    /\ UNCHANGED draws

Resize(sizes) ==
    /\ ~backend.panicked
    /\ \E size \in sizes : backend' = resize(Begin(backend), size[1], size[2])
    /\ lastOp' = "resize"
    /\ UNCHANGED draws

SetFontSize(font_sizes) ==
    /\ ~backend.panicked
    /\ \E font_size \in font_sizes : backend' = set_font_size(Begin(backend), font_size)
    /\ lastOp' = "set_font_size"
    /\ UNCHANGED draws

Clear ==
    /\ ~backend.panicked
    /\ backend' = clear(Begin(backend))
    /\ lastOp' = "clear"
    /\ UNCHANGED draws

\* hide_cursor / show_cursor
SetCursor(visible) ==
    /\ ~backend.panicked
    /\ backend' = [backend EXCEPT !.cursor = visible]
    /\ lastOp' = "cursor"
    /\ UNCHANGED draws

HideCursor == SetCursor(FALSE)

ShowCursor == SetCursor(TRUE)

SetCursorPosition ==
    /\ ~backend.panicked
    /\ \E position \in Positions : backend' = [backend EXCEPT !.pos = position]
    /\ lastOp' = "cursor"
    /\ UNCHANGED draws

\* what the read-only operations return
get_cursor_position(s) == s.pos

size(s) == <<s.buffer.area.width, s.buffer.area.height>>

\* `as u16` keeps the low 16 bits
window_size(s) ==
    [columns_rows |-> size(s),
     pixels |-> <<s.rgb_pixmap.width % 65536, s.rgb_pixmap.height % 65536>>]

flush(s) == s

\* get_cursor_position, size, window_size, flush: a value is returned and
\* the struct is left as it is
Query ==
    /\ ~backend.panicked
    /\ \E result \in {get_cursor_position(backend), size(backend),
                      window_size(backend).pixels} : backend' = flush(backend)
    /\ lastOp' = "query"
    /\ UNCHANGED draws

----------------------------------------------------------------------------
(* Spec: the paint operations on a backend built by new_with_font          *)
(* (scale factor 1.0).                                                     *)

Init == Construct(GridSizes, FontSizes, {1})

Next ==
    \/ Draw(Contents, MaxDraws)
    \/ Redraw
    \/ Resize(GridSizes)
    \/ SetFontSize(FontSizes)
    \/ Clear

Spec == Init /\ [][Next]_vars

----------------------------------------------------------------------------
(* SpecScale: the same operations on backends built at either scale        *)
(* factor, with single-cell draws.                                         *)

ScaleContents == Singles({EmptyCell, WideCell})

InitScale == Construct(GridSizes, FontSizes, Scales)

NextScale ==
    \/ Draw(ScaleContents, MaxScaleDraws)
    \/ Redraw
    \/ Resize(GridSizes)
    \/ SetFontSize(FontSizes)
    \/ Clear

SpecScale == InitScale /\ [][NextScale]_vars

----------------------------------------------------------------------------
(* SpecCycle: every operation of the Backend trait on a one-cell grid,     *)
(* through more than one full period of the blink counter.                 *)

BlinkCell == MkCell("i", Red, Blue, {"SLOW_BLINK", "RAPID_BLINK"})

CycleContents == Singles({EmptyCell, BlinkCell})

CycleSizes == {<<1, 1>>, <<0, 1>>}

InitCycle == Construct({<<1, 1>>}, {2}, {1})

NextCycle ==
    \/ Draw(CycleContents, MaxTicks)
    \/ Redraw
    \/ Resize(CycleSizes)
    \/ SetFontSize({2})
    \/ Clear
    \/ HideCursor
    \/ ShowCursor
    \/ SetCursorPosition
    \/ Query

SpecCycle == InitCycle /\ [][NextCycle]_vars

----------------------------------------------------------------------------
(* SpecWindow: grids from one cell to 32769 columns or rows.  At font size *)
(* 3 a cell is 2x2 pixels, so a grid of 32768 columns is 65536 pixels      *)
(* wide; the wide grids have no rows (the tall ones no columns), which     *)
(* keeps their pixel arrays empty.                                         *)

WindowSizes == {<<1, 1>>, <<2, 1>>, <<32767, 0>>, <<32768, 0>>, <<32769, 0>>, <<0, 32768>>}

WindowFontSizes == {2, 3}

WindowContents == Singles({EmptyCell, WideCell})

InitWindow == Construct(WindowSizes, WindowFontSizes, {1})

NextWindow ==
    \/ Draw(WindowContents, MaxWindowDraws)
    \/ Redraw
    \/ Resize(WindowSizes)
    \/ SetFontSize(WindowFontSizes)
    \/ Clear
    \/ Query

SpecWindow == InitWindow /\ [][NextWindow]_vars

----------------------------------------------------------------------------
(* SpecStyle: a one-cell grid drawn with every combination of REVERSED,    *)
(* DIM and HIDDEN and of a default, an indexed and an RGB colour for the   *)
(* foreground and for the background.                                      *)

StyleForegrounds == {Reset, Indexed(3), Red}

StyleBackgrounds == {Reset, Indexed(4), Blue}

StyleCells ==
    {MkCell("i", fg, bg, modifier) :
        fg \in StyleForegrounds, bg \in StyleBackgrounds,
        modifier \in SUBSET {"REVERSED", "DIM", "HIDDEN"}}

StyleContents == {<< >>} \cup {<< <<0, 0, c>> >> : c \in StyleCells}

InitStyle == Construct({<<1, 1>>}, {2}, {1})

NextStyle ==
    \/ Draw(StyleContents, MaxStyleDraws)
    \/ Redraw
    \/ Clear

SpecStyle == InitStyle /\ [][NextStyle]_vars

----------------------------------------------------------------------------
(* What the properties below read from a state *)

GridCoords(buf) == (0..(buf.area.width - 1)) \X (0..(buf.area.height - 1))

\* the coordinates of the grid cells that carry a blink modifier
BlinkCoords(buf) ==
    {c \in GridCoords(buf) :
        BufferCell(buf, c[1], c[2]).modifier \cap {"SLOW_BLINK", "RAPID_BLINK"} # {}}

\* the entries of the paint log of one phase, as log positions
PhaseEntries(s, phase) == {i \in DOMAIN s.paint_log : s.paint_log[i][1] = phase}

\* the pixmap writes <<data index, colour>> of the glyph of cell (x, y)
GlyphWrites(s, x, y) ==
    LET rat_cell == BufferCell(s.buffer, x, y)
        colors == TextColors(rat_cell, s.blinking_fast, s.blinking_slow)
        glyph == GlyphPixels(rat_cell.symbol, s.metrics * s.scale_factor)
        begin_x == x * PhysicalSize(s.char_width, s.scale_factor)
        begin_y == y * PhysicalSize(s.char_height, s.scale_factor)
        inside == {n \in DOMAIN glyph :
                      /\ glyph[n][1] >= 0 /\ glyph[n][2] >= 0
                      /\ begin_x + glyph[n][1] < s.rgb_pixmap.width
                      /\ begin_y + glyph[n][2] < s.rgb_pixmap.height}
    IN  {<<(begin_y + glyph[n][2]) * s.rgb_pixmap.width + begin_x + glyph[n][1] + 1,
           blend_rgba(colors.fg_color, glyph[n][3], colors.bg_color)>> : n \in inside}

\* the pixmap data indexes the glyph of cell (x, y) touches
GlyphIndexes(s, x, y) == {w[1] : w \in GlyphWrites(s, x, y)}

\* the text-phase log entries whose glyph touches data index p
Touching(s, p) ==
    {i \in PhaseEntries(s, "fg") :
        p \in GlyphIndexes(s, s.paint_log[i][2], s.paint_log[i][3])}

Max(set) == CHOOSE m \in set : \A n \in set : n <= m

----------------------------------------------------------------------------
(* C1 *)

\* C1: a draw that is given a coordinate outside the grid does not panic:
\* the coordinate is skipped and the call returns, so no draw ever leaves
\* the backend unwound, and the pixmap keeps its allocated extent.
C1_OutOfBoundsDrawReturns ==
    /\ lastOp = "draw" => ~backend.panicked
    /\ Len(backend.rgb_pixmap.data) = backend.rgb_pixmap.width * backend.rgb_pixmap.height

----------------------------------------------------------------------------
(* C2 *)

BlinkState(s) == <<s.blink_counter, s.blinking_fast, s.blinking_slow>>

\* C2: the blink counter is the number of draw calls modulo 200; a draw
\* advances it by one with wrap-around, and no other operation changes the
\* counter or the two blink predicates.
C2_CounterCountsDraws ==
    /\ [](backend.blink_counter = draws % 200 /\ backend.blink_counter \in 0..199)
    /\ [][draws' = draws + 1 => backend'.blink_counter = (backend.blink_counter + 1) % 200]_vars
    /\ [][draws' = draws => BlinkState(backend') = BlinkState(backend)]_vars

\* the counter has wrapped: more than 200 draws, and an operation that is
\* not a draw has run since
C2_Wrapped ==
    /\ draws > 200
    /\ backend.blink_counter = draws - 200
    /\ lastOp = "redraw"

----------------------------------------------------------------------------
(* C3 *)

\* C3: in every state, the constructed one included, blinking_fast is
\* counter mod 100 in [0,5] and blinking_slow is counter in [20,25].
C3_PredicatesFollowCounter ==
    /\ backend.blinking_fast = ((backend.blink_counter % 100) \in 0..5)
    /\ backend.blinking_slow = (backend.blink_counter \in 20..25)

----------------------------------------------------------------------------
(* C4 *)

\* whether the blink phase of the claim hides the cell's glyph
BlinkedOut(s, rat_cell) ==
    \/ "RAPID_BLINK" \in rat_cell.modifier /\ (s.blink_counter % 100) \in 0..5
    \/ "SLOW_BLINK" \in rat_cell.modifier /\ s.blink_counter \in 20..25

\* C4: after a paint, every pixel touched by the glyph of a painted cell
\* that is blinked out (and by no other painted glyph) has the colour the
\* background phase filled that cell with.
C4_BlinkedGlyphInvisible ==
    ~backend.panicked =>
        \A i \in PhaseEntries(backend, "fg") :
            LET x == backend.paint_log[i][2]
                y == backend.paint_log[i][3]
                rat_cell == BufferCell(backend.buffer, x, y)
            IN  BlinkedOut(backend, rat_cell) =>
                    \A p \in GlyphIndexes(backend, x, y) :
                        (\A j \in Touching(backend, p) :
                             <<backend.paint_log[j][2], backend.paint_log[j][3]>> = <<x, y>>)
                        => backend.rgb_pixmap.data[p] = BackgroundColor(rat_cell)

----------------------------------------------------------------------------
(* C5 *)

\* C5: after every operation that returns, the pixmap is the image a full
\* redraw of the grid under the current blink predicates produces.
C5_PixmapMatchesGrid ==
    ~backend.panicked => backend.rgb_pixmap = redraw(backend).rgb_pixmap

----------------------------------------------------------------------------
(* C6 *)

\* C6: in the paint log of every draw and redraw, each background fill
\* precedes every glyph composite and each composited cell was filled
\* before; so every pixel a painted glyph touches holds what the last
\* painted glyph touching it composited there, never a background fill.
C6_BackgroundsBeforeText ==
    ~backend.panicked =>
        LET log == backend.paint_log
        IN  /\ \A i \in PhaseEntries(backend, "fg"), j \in PhaseEntries(backend, "bg") : j < i
            /\ \A i \in PhaseEntries(backend, "fg") :
                   \E j \in PhaseEntries(backend, "bg") :
                       <<log[j][2], log[j][3]>> = <<log[i][2], log[i][3]>>
            /\ \A p \in DOMAIN backend.rgb_pixmap.data :
                   Touching(backend, p) # {} =>
                       LET last == log[Max(Touching(backend, p))]
                       IN  <<p, backend.rgb_pixmap.data[p]>>
                               \in GlyphWrites(backend, last[2], last[3])

\* a draw painted a wide glyph at (0,0) that reaches into cell (1,0), whose
\* background was filled by the same draw
C6_OverflowPainted ==
    /\ lastOp = "draw"
    /\ ~backend.panicked
    /\ \E i \in PhaseEntries(backend, "fg") :
           /\ <<backend.paint_log[i][2], backend.paint_log[i][3]>> = <<0, 0>>
           /\ Cardinality(GlyphIndexes(backend, 0, 0)) = 2
    /\ \E j \in PhaseEntries(backend, "bg") :
           <<backend.paint_log[j][2], backend.paint_log[j][3]>> = <<1, 0>>

----------------------------------------------------------------------------
(* C7 *)

----------------------------------------------------------------------------
(* C8 *)

\* the logical font size the backend was last given
FontSizeOf(s) == s.metrics \div s.scale_factor

\* C8: a backend at scale 2.0 has a pixmap exactly twice as wide and twice
\* as high as one built with the same grid and font size at scale 1.0
\* (stated for the grids and font sizes whose pixmap at 1.0 is not empty).
C8_ScaleTwoDoubles ==
    backend.scale_factor = 2 =>
        LET area == backend.buffer.area
            one == new_with_font_and_scale(area.width, area.height, FontSizeOf(backend), 1)
        IN  one.rgb_pixmap.width > 0 =>
                /\ backend.rgb_pixmap.width = 2 * one.rgb_pixmap.width
                /\ backend.rgb_pixmap.height = 2 * one.rgb_pixmap.height

----------------------------------------------------------------------------
(* C9 *)

\* C9: a redraw that follows a redraw leaves the whole backend (pixmap,
\* grid, blink counter and predicates, redraw set) as it was.
C9_RedrawIdempotent ==
    [][(lastOp \in {"redraw", "redraw_again"} /\ lastOp' = "redraw_again")
          => backend' = backend]_vars

\* redraw has run twice in a row on a grid that holds a blinking cell and a
\* glyph reaching into its neighbour
C9_RedrawnTwice ==
    /\ lastOp = "redraw_again"
    /\ BlinkCoords(backend.buffer) # {}
    /\ Cardinality(GlyphIndexes(backend, 0, 0)) = 2
    /\ backend.blink_counter > 0

----------------------------------------------------------------------------
(* C10 *)

\* C10: after every operation that returns, the redraw set holds the
\* coordinate of every blinking grid cell; right after a full redraw it is
\* exactly that set; and a draw only adds to it.
C10_RedrawSet ==
    /\ [](~backend.panicked =>
            /\ BlinkCoords(backend.buffer) \subseteq backend.always_redraw_list
            /\ lastOp \in {"redraw", "redraw_again", "resize", "set_font_size"}
                   => backend.always_redraw_list = BlinkCoords(backend.buffer))
    /\ [][draws' = draws + 1
             => backend.always_redraw_list \subseteq backend'.always_redraw_list]_vars

\* after a draw the set still holds a coordinate whose cell no longer
\* blinks, beside the coordinate of a cell that does
C10_StaleEntry ==
    /\ lastOp = "draw"
    /\ ~backend.panicked
    /\ BlinkCoords(backend.buffer) # {}
    /\ backend.always_redraw_list \ BlinkCoords(backend.buffer) # {}

----------------------------------------------------------------------------
(* C11 *)

\* the coordinates of the log entries of one kind, in log order
LogCoords(s, kind) ==
    LET entries == SelectSeq(s.paint_log, LAMBDA e : e[1] = kind)
    IN  [k \in 1..Len(entries) |-> <<entries[k][2], entries[k][3]>>]

Range(seq) == {seq[k] : k \in DOMAIN seq}

\* C11: a draw that returns has written each given cell into the grid and
\* left every other cell as it was; its background pass and its text pass
\* each ran over exactly the given coordinates followed by the coordinates
\* the redraw set held before the call, and over no other cell.
C11_RepaintSet ==
    [][(draws' = draws + 1 /\ ~backend'.panicked) =>
          LET log == backend'.paint_log
              given == LogCoords(backend', "set")
              written == {i \in DOMAIN log : log[i][1] = "set"}
          IN  /\ LogCoords(backend', "fg") = LogCoords(backend', "bg")
              /\ \E order \in Orders(backend.always_redraw_list) :
                     LogCoords(backend', "bg") = given \o order
              /\ \A i \in written :
                     (\A j \in written : j > i =>
                          <<log[j][2], log[j][3]>> # <<log[i][2], log[i][3]>>)
                     => BufferCell(backend'.buffer, log[i][2], log[i][3]) = log[i][4]
              /\ \A c \in GridCoords(backend.buffer) \ Range(given) :
                     BufferCell(backend'.buffer, c[1], c[2])
                         = BufferCell(backend.buffer, c[1], c[2])]_vars

\* the sixth draw of a two-cell grid, given no cell, repainted the
\* rapid-blink cell at (0,0) from the redraw set, now visible again, and
\* ran no phase for (1,0)
C11_BlinkOnlyRepaint ==
    /\ lastOp = "draw"
    /\ ~backend.panicked
    /\ backend.blink_counter = 6
    /\ backend.buffer.area = [width |-> 2, height |-> 1]
    /\ backend.rgb_pixmap.width = 2
    /\ "RAPID_BLINK" \in BufferCell(backend.buffer, 0, 0).modifier
    /\ LogCoords(backend, "set") = << >>
    /\ LogCoords(backend, "bg") = << <<0, 0>> >>
    /\ LogCoords(backend, "fg") = << <<0, 0>> >>
    /\ backend.rgb_pixmap.data[1] # BackgroundColor(BufferCell(backend.buffer, 0, 0))

----------------------------------------------------------------------------
(* C12 *)

\* C12: window_size reports the grid's (columns, rows), the same pair as
\* size, and the pixmap's actual width and height in pixels, whatever the
\* size of the pixmap.
C12_WindowSizeIsPixmapSize ==
    /\ window_size(backend).columns_rows = size(backend)
    /\ window_size(backend).pixels
           = <<backend.rgb_pixmap.width, backend.rgb_pixmap.height>>

----------------------------------------------------------------------------
(* C13 *)

\* C13: for every cell painted, whatever its REVERSED, DIM and HIDDEN
\* modifiers and its colours, the background colour the text phase blends
\* the glyph against is the colour the background phase filled the cell
\* with, and the foreground colour of a HIDDEN cell is that colour too.
C13_PhasesAgreeOnBackground ==
    (lastOp \in {"draw", "redraw"} /\ ~backend.panicked) =>
        \A c \in GridCoords(backend.buffer) :
            LET rat_cell == BufferCell(backend.buffer, c[1], c[2])
                text == TextColors(rat_cell, backend.blinking_fast, backend.blinking_slow)
            IN  /\ text.bg_color = BackgroundColor(rat_cell)
                /\ "HIDDEN" \in rat_cell.modifier
                       => text.fg_color = BackgroundColor(rat_cell)

====
